---- MODULE Spec2Model ----
(***************************************************************************)
(* A model of api/client.go: the Client session (token, closer channel,    *)
(* closed flag, mutex, background renewal goroutine), the request          *)
(* descriptor R with its chained configuration calls and Do, and the       *)
(* Filter compiler.  Strings that are formatted, escaped or compared are   *)
(* sequences of one-character strings.                                     *)
(***************************************************************************)
EXTENDS Integers, Sequences, FiniteSets, TLC

VARIABLES
    c,           \* the Client: token, closer channel, closed flag, mutex
    bg,          \* position of the session's background goroutine
    closePc,     \* position of the goroutine that calls Close()
    proc,        \* the process: running, exited (log.Fatalf) or panicked
    now,         \* time since the session was created
    ticker,      \* the renewal goroutine's time.Ticker
    r,           \* the caller's current request descriptor (R)
    filterArgs,  \* the filterArgs of the last Filter call on r
    obs          \* what has been observed about token reads and sends

vars == <<c, bg, closePc, proc, now, ticker, r, filterArgs, obs>>

(***************************************************************************)
(* Bounds of the model.                                                    *)
(***************************************************************************)
MaxTokens == 5      \* longest filterArgs list
MaxCalls == 3       \* calls made on one request descriptor
MaxSessionCalls == 1  \* configuration calls on a descriptor, in Spec
MaxTime == 605      \* time the clock is followed for
MaxCloses == 2      \* calls of Close()

(***************************************************************************)
(* Strings.                                                                *)
(***************************************************************************)
S_reverse == <<"r","e","v","e","r","s","e">>
S_sort == <<"s","o","r","t">>
S_limit == <<"l","i","m","i","t">>
S_offset == <<"o","f","f","s","e","t">>
S_true == <<"t","r","u","e">>
S_name == <<"n","a","m","e">>
S_Eq == <<"E","q">>
S_BETWEEN == <<"B","E","T","W","E","E","N">>
S_foo == <<"f","o","o">>
S_10 == <<"1","0">>
S_ttl == <<"t","t","l">>
S_600 == <<"6","0","0">>

Upper == <<"A","B","C","D","E","F","G","H","I","J","K","L","M",
           "N","O","P","Q","R","S","T","U","V","W","X","Y","Z">>
Lower == <<"a","b","c","d","e","f","g","h","i","j","k","l","m",
           "n","o","p","q","r","s","t","u","v","w","x","y","z">>
Digits == <<"0","1","2","3","4","5","6","7","8","9">>

\* Byte order of the characters that occur (ASCII).
Ascii == <<"%","&","(",")","+",",","-",".">> \o Digits \o <<"=">> \o Upper
         \o <<"_">> \o Lower \o <<"~">>

RangeOf(s) == {s[i] : i \in DOMAIN s}

Pos(ch, s) == CHOOSE i \in DOMAIN s : s[i] = ch

Ord(ch) == Pos(ch, Ascii)

\* strings.ToLower, strings.Title on ASCII: Title upper-cases the first letter.
ToLowerCh(ch) == IF ch \in RangeOf(Upper) THEN Lower[Pos(ch, Upper)] ELSE ch

ToUpperCh(ch) == IF ch \in RangeOf(Lower) THEN Upper[Pos(ch, Lower)] ELSE ch

ToLower(s) == [i \in DOMAIN s |-> ToLowerCh(s[i])]

Title(s) == [i \in DOMAIN s |-> IF i = 1 THEN ToUpperCh(s[i]) ELSE s[i]]

\* Go's string order (sort.Strings): byte-wise lexicographic.
RECURSIVE StrLess(_, _)
StrLess(a, b) ==
    IF b = <<>> THEN FALSE
    ELSE IF a = <<>> THEN TRUE
    ELSE IF a[1] # b[1] THEN Ord(a[1]) < Ord(b[1])
    ELSE StrLess(Tail(a), Tail(b))

\* url.QueryEscape: unreserved characters stay, a space becomes "+", every
\* other byte becomes %XX.
Unreserved == RangeOf(Upper) \cup RangeOf(Lower) \cup RangeOf(Digits)
              \cup {"-", "_", ".", "~"}

EscapeCh(ch) ==
    IF ch \in Unreserved THEN <<ch>>
    ELSE CASE ch = "(" -> <<"%","2","8">>
           [] ch = ")" -> <<"%","2","9">>
           [] ch = "," -> <<"%","2","C">>
           [] ch = "&" -> <<"%","2","6">>
           [] ch = "=" -> <<"%","3","D">>
           [] ch = "%" -> <<"%","2","5">>
           [] ch = "+" -> <<"%","2","B">>

RECURSIVE QueryEscape(_)
QueryEscape(s) ==
    IF s = <<>> THEN <<>> ELSE EscapeCh(s[1]) \o QueryEscape(Tail(s))

(***************************************************************************)
(* url.Values: a map from a key to the list of its values, kept as the     *)
(* list of <<key, value>> pairs in the order they were added.              *)
(***************************************************************************)
Add(values, k, v) == Append(values, <<k, v>>)

KeysOf(values) == {values[i][1] : i \in DOMAIN values}

RECURSIVE SortedKeys(_)
SortedKeys(ks) ==
    IF ks = {} THEN <<>>
    ELSE LET m == CHOOSE k \in ks : \A o \in ks : o = k \/ StrLess(k, o)
         IN <<m>> \o SortedKeys(ks \ {m})

\* Values.Encode: keys sorted, each key's values in the order added,
\* "key=value" pairs joined by "&", keys and values query-escaped.
RECURSIVE EncodePairs(_, _, _)
EncodePairs(values, k, i) ==
    IF i > Len(values) THEN <<>>
    ELSE IF values[i][1] = k
         THEN <<QueryEscape(k) \o <<"=">> \o QueryEscape(values[i][2])>>
              \o EncodePairs(values, k, i + 1)
         ELSE EncodePairs(values, k, i + 1)

RECURSIVE EncodeKeys(_, _)
EncodeKeys(values, ks) ==
    IF ks = <<>> THEN <<>>
    ELSE EncodePairs(values, ks[1], 1) \o EncodeKeys(values, Tail(ks))

RECURSIVE Join(_, _)
Join(parts, sep) ==
    IF parts = <<>> THEN <<>>
    ELSE IF Len(parts) = 1 THEN parts[1]
    ELSE parts[1] \o sep \o Join(Tail(parts), sep)

Encode(values) == Join(EncodeKeys(values, SortedKeys(KeysOf(values))), <<"&">>)

(***************************************************************************)
(* The error accumulator (models.Error) carried by every R.                *)
(***************************************************************************)
NoError == [Type |-> "CLIENT_ERROR", Model |-> "", Key |-> "", Code |-> 0,
            Messages |-> <<>>]

Errorf(rq, msg) == [rq EXCEPT !.err.Messages = Append(@, msg)]

\* AddError(nil) records nothing.
AddError(rq, e) == IF e = "" THEN rq ELSE Errorf(rq, e)

ContainsError(rq) == Len(rq.err.Messages) > 0

\* HasError: the error itself when it holds a message, otherwise nil.
HasError(rq) == IF ContainsError(rq) THEN "err" ELSE "nil"

HasMsg(rq, msg) == \E i \in DOMAIN rq.err.Messages : rq.err.Messages[i] = msg

(***************************************************************************)
(* The request descriptor R and its chained calls, as functions on the     *)
(* descriptor.                                                             *)
(***************************************************************************)
NilURI == [nil |-> TRUE, path |-> <<>>, RawQuery |-> <<>>]

\* Client.Req: a fresh R.  st is the position of the calls made on it:
\* "built" (being configured), "checked" and "sent" (inside Do), "done".
\* Beside the fields of R: val is Do's argument, ret what Do returned, sends
\* the requests handed to the transport, calls the calls made on the
\* descriptor, readMux who held c.mux when its Do read c.token.  patch is
\* the content of a body that is a generated patch, res the server's error
\* that Do decoded and returned, decoded what Do put into val ("val" when it
\* decoded the body into it, "copied" when it copied the body to it), op
\* the method of Client that runs the Do and exists what ExistsModel
\* returned.  Resp is the response, with err set while there is none, and
\* recv what the transport gave the last Do.
NoHeader ==
    [Authorization |-> <<>>, ContentType |-> <<>>, Accept |-> <<>>,
     XLogRequest |-> <<>>, XLogToken |-> <<>>]

NewR ==
    [st |-> "built", method |-> "GET", uri |-> NilURI, header |-> NoHeader,
     body |-> "none", err |-> NoError, val |-> "nil", ret |-> "none",
     sends |-> 0, calls |-> 0, readMux |-> "none",
     paranoid |-> FALSE, patch |-> <<>>,
     res |-> NoError, decoded |-> "none", op |-> "Do", exists |-> "none",
     Resp |-> [err |-> TRUE], recv |-> [err |-> TRUE],
     traceLvl |-> "", traceToken |-> ""]

NoR == [NewR EXCEPT !.st = "none"]

Meth(rq, v) == [rq EXCEPT !.method = v]

Get(rq) == Meth(rq, "GET")

\* R.Head
MethHead(rq) == Meth(rq, "HEAD")

Del(rq) == Meth(rq, "DELETE")

\* R.UrlFor: path is the args, parsed says whether url.ParseRequestURI accepts
\* the endpoint followed by the joined path.
UrlFor(rq, parsed, path) ==
    IF ~parsed
    THEN AddError(rq, "parse: invalid URI for request")
    ELSE [rq EXCEPT !.uri = [nil |-> FALSE, path |-> path, RawQuery |-> <<>>]]

\* The loop of R.Params: values.Add(args[i-1], args[i]) for i = 1, 3, ...
RECURSIVE ParamValues(_, _, _)
ParamValues(args, i, values) ==
    IF i < Len(args)
    THEN ParamValues(args, i + 2, Add(values, args[i], args[i + 1]))
    ELSE values

Params(rq, args) ==
    IF rq.uri.nil
    THEN Errorf(rq, "Cannot call WithParams before UrlFor or UrlForM")
    ELSE IF Len(args) % 2 = 1
    THEN Errorf(rq, "WithParams was not passed an even number of arguments")
    ELSE [rq EXCEPT !.uri.RawQuery = Encode(ParamValues(args, 1, <<>>))]

(***************************************************************************)
(* R.Filter.                                                               *)
(***************************************************************************)
Ops1 == {<<"E","q">>, <<"L","t">>, <<"L","t","e">>, <<"G","t">>,
         <<"G","t","e">>, <<"N","e">>}

Ops2 == {<<"B","e","t","w","e","e","n">>, <<"E","x","c","e","p","t">>}

\* NormOp without the strings.ToLower.
NormOpTitleOnly(s) == Title(s)

\* op := strings.Title(strings.ToLower(filterArgs[i+1]))
NormOp(s) == Title(ToLower(s))

\* fmt.Sprintf("%s(%s)", op, v) and fmt.Sprintf("%s(%s,%s)", op, lo, hi)
Sprintf1(op, v) == op \o <<"(">> \o v \o <<")">>

\* Sprintf2 with the bounds in the other order.
Sprintf2Swapped(op, lo, hi) == op \o <<"(">> \o hi \o <<",">> \o lo \o <<")">>

Sprintf2(op, lo, hi) == op \o <<"(">> \o lo \o <<",">> \o hi \o <<")">>

\* The loop of Filter from index i (0-based, as in the source) with the
\* finalParams collected so far: the finalParams, or the error it stops at.
RECURSIVE FilterLoop(_, _, _)
FilterLoop(args, i, finalParams) ==
    IF ~(i < Len(args)) THEN [err |-> "", finalParams |-> finalParams]
    ELSE LET filter == args[i + 1] IN
      IF filter = S_reverse
      THEN FilterLoop(args, i + 1, finalParams \o <<filter, S_true>>)
      ELSE IF filter \in {S_sort, S_limit, S_offset}
      THEN IF Len(args) - i < 2
           THEN [err |-> "Invalid Filter: %s requires exactly one parameter",
                 finalParams |-> finalParams]
           ELSE FilterLoop(args, i + 2, finalParams \o <<filter, args[i + 2]>>)
      ELSE IF Len(args) - i < 2
           THEN [err |-> "Invalid Filter: %s requires an op and at least 1 parameter",
                 finalParams |-> finalParams]
           ELSE LET op == NormOp(args[i + 2])
                    j == i + 2
                IN IF op \in Ops1
                   THEN IF Len(args) - j < 1
                        THEN [err |-> "Invalid Filter: %s op %s requires 1 parameter",
                              finalParams |-> finalParams]
                        ELSE FilterLoop(args, j + 1,
                               finalParams \o <<filter, Sprintf1(op, args[j + 1])>>)
                   ELSE IF op \in Ops2
                   THEN IF Len(args) - j < 2
                        THEN [err |-> "Invalid Filter: %s op %s requires 2 parameters",
                              finalParams |-> finalParams]
                        ELSE FilterLoop(args, j + 2,
                               finalParams \o
                               <<filter, Sprintf2(op, args[j + 1], args[j + 2])>>)
                   ELSE [err |-> "Invalid Filter %s: unknown op %s",
                         finalParams |-> finalParams]

\* Filter passing the finalParams collected before an error on to Params.
FilterKeepsPartial(rq, parsed, prefix, args) ==
    LET r1 == UrlFor(Get(rq), parsed, <<prefix>>)
        res == FilterLoop(args, 0, <<>>)
    IN IF res.err # "" THEN Errorf(Params(r1, res.finalParams), res.err)
       ELSE Params(r1, res.finalParams)

Filter(rq, parsed, prefix, args) ==
    LET r1 == UrlFor(Get(rq), parsed, <<prefix>>)
        res == FilterLoop(args, 0, <<>>)
    IN IF res.err # "" THEN Errorf(r1, res.err)
       ELSE Params(r1, res.finalParams)

(***************************************************************************)
(* Tokens: the server's token is valid for TokenTTL from its issue.        *)
(***************************************************************************)
TokenTTL == 600      \* validity of a token the server issues
RenewPeriod == 300   \* period of the renewal ticker

NoToken == [id |-> 0, issued |-> 0]

Expired(tok, t) == t >= tok.issued + TokenTTL

(***************************************************************************)
(* R.Do, in the three parts another goroutine can come between: the        *)
(* checks and the headers (DoCheck), Authorize and the send, the response. *)
(***************************************************************************)
\* http.Header.Add: the value is appended to the values of the name.
HeaderAdd(h, name, value) ==
    CASE name = "Authorization" -> [h EXCEPT !.Authorization = Append(@, value)]
      [] name = "Content-Type" -> [h EXCEPT !.ContentType = Append(@, value)]
      [] name = "Accept" -> [h EXCEPT !.Accept = Append(@, value)]
      [] name = "X-Log-Request" -> [h EXCEPT !.XLogRequest = Append(@, value)]
      [] name = "X-Log-Token" -> [h EXCEPT !.XLogToken = Append(@, value)]

\* The loop of R.Headers: r.header.Add(args[i-1], args[i]) for i = 1, 3, ...
RECURSIVE HeaderValues(_, _, _)
HeaderValues(args, i, h) ==
    IF i < Len(args)
    THEN HeaderValues(args, i + 2, HeaderAdd(h, args[i], args[i + 1]))
    ELSE h

Headers(rq, args) ==
    IF Len(args) % 2 = 1
    THEN Errorf(rq, "WithHeaders was not passed an even number of arguments")
    ELSE [rq EXCEPT !.header = HeaderValues(args, 1, @)]

\* The trace headers of Do, from the descriptor's own level and token.
TraceHeaders(rq) ==
    IF rq.traceLvl # ""
    THEN Headers(Headers(rq, <<"X-Log-Request", rq.traceLvl>>),
                 <<"X-Log-Token", rq.traceToken>>)
    ELSE rq

\* DoCheck without the check of c.closed.
DoCheckNoClosed(rq, closed, val) ==
    IF rq.uri.nil
    THEN [Errorf(rq, "No URL to talk to") EXCEPT !.st = "done", !.ret = "err"]
    ELSE IF ContainsError(rq)
    THEN [rq EXCEPT !.st = "done", !.ret = "err"]
    ELSE [Headers(rq, <<"Accept", "application/json">>)
            EXCEPT !.st = "checked", !.val = val, !.ret = "none"]

\* DoCheck without the check of r.err.
DoCheckNoErrCheck(rq, closed, val) ==
    IF rq.uri.nil
    THEN [Errorf(rq, "No URL to talk to") EXCEPT !.st = "done", !.ret = "err"]
    ELSE IF closed
    THEN [Errorf(rq, "Connection Closed") EXCEPT !.st = "done", !.ret = "err"]
    ELSE [Headers(rq, <<"Accept", "application/json">>)
            EXCEPT !.st = "checked", !.val = val, !.ret = "none"]

\* DoCheck testing c.closed and r.err before the URL.
DoCheckUrlLast(rq, closed, val) ==
    IF closed
    THEN [Errorf(rq, "Connection Closed") EXCEPT !.st = "done", !.ret = "err"]
    ELSE IF ContainsError(rq)
    THEN [rq EXCEPT !.st = "done", !.ret = "err"]
    ELSE IF rq.uri.nil
    THEN [Errorf(rq, "No URL to talk to") EXCEPT !.st = "done", !.ret = "err"]
    ELSE LET r1 == Headers(rq, <<"Accept", "application/json">>)
             r2 == IF val = "writer"
                   THEN Headers(r1, <<"Accept", "application/octet-stream">>)
                   ELSE r1
         IN [r2 EXCEPT !.st = "checked", !.val = val, !.ret = "none"]

\* Do up to http.NewRequest: the three checks, each returning r.err at
\* once, then the Accept headers.  closed is what the read of c.closed gave.
DoCheck(rq, closed, val) ==
    IF rq.uri.nil
    THEN [Errorf(rq, "No URL to talk to") EXCEPT !.st = "done", !.ret = "err"]
    ELSE IF closed
    THEN [Errorf(rq, "Connection Closed") EXCEPT !.st = "done", !.ret = "err"]
    ELSE IF ContainsError(rq)
    THEN [rq EXCEPT !.st = "done", !.ret = "err"]
    ELSE LET r0 == TraceHeaders(rq)
             r1 == Headers(r0, <<"Accept", "application/json">>)
             r2 == IF val = "writer"
                   THEN Headers(r1, <<"Accept", "application/octet-stream">>)
                   ELSE r1
         IN [r2 EXCEPT !.st = "checked", !.val = val, !.ret = "none"]

\* A header value is a scheme and what follows it; the empty string is the
\* empty scheme.
EmptyValue == [scheme |-> "", tok |-> 0]

\* http.Header.Get: the first value of the name, "" when it has none.
HeaderGet(values) == IF values = <<>> THEN EmptyValue ELSE values[1]

\* Client.Token and Client.Authorize: the bearer header is set from c.token
\* unless the Authorization header of the request is other than "".
Bearer(tok) == [scheme |-> "Bearer", tok |-> tok.id]

\* Authorize setting the bearer header whatever the request holds.
AuthorizeAlways(rq, tok) ==
    [rq EXCEPT !.header.Authorization = <<Bearer(tok)>>]

Authorize(rq, tok) ==
    IF HeaderGet(rq.header.Authorization) = EmptyValue
    THEN [rq EXCEPT !.header.Authorization = <<Bearer(tok)>>]
    ELSE rq

\* Whether the request the transport is handed at time t carries, as its
\* (first) Authorization value, the token tok after its validity has ended.
SendsExpired(rq, tok, t) ==
    LET a == rq.header.Authorization[1]
    IN a.scheme = "Bearer" /\ a.tok = tok.id /\ Expired(tok, t)

\* A response: err says that the transport failed; otherwise its status, its
\* Content-Type header, its body and whether its length is known.  A body
\* is a JSON object that holds a models.Error ("error", with the Code and
\* the Messages it holds), another JSON object ("object"), bytes that are
\* not JSON ("garbage") or nothing ("empty").
Statuses == {200, 299, 300, 301, 399, 400, 404, 500}

ContentTypes == {"application/json", "application/json; charset=utf-8",
                 "text/plain", ""}

NoResp ==
    [err |-> TRUE, StatusCode |-> 0, ct |-> "",
     body |-> [kind |-> "empty", Code |-> 0, Messages |-> <<>>],
     chunked |-> FALSE]

TransportFailure == NoResp

BodiesOf(status) ==
    {[kind |-> "error", Code |-> code, Messages |-> <<"server message">>] :
        code \in {status, 0}}
    \cup {[kind |-> k, Code |-> 0, Messages |-> <<>>] :
            k \in {"object", "garbage", "empty"}}

Responses ==
    {TransportFailure}
    \cup UNION {[err : {FALSE}, StatusCode : {status}, ct : ContentTypes,
                 body : BodiesOf(status), chunked : BOOLEAN] :
                  status \in Statuses}

\* resp.ContentLength: -1 when the length is unknown.
ContentLength(resp) ==
    IF resp.chunked THEN -1 ELSE IF resp.body.kind = "empty" THEN 0 ELSE 2

\* mime.ParseMediaType: the media type in lower case, without parameters.
MediaType(ct) ==
    CASE ct \in {"application/json", "application/json; charset=utf-8"} ->
           "application/json"
      [] OTHER -> ct

\* http.StatusText
StatusText(code) ==
    CASE code = 301 -> "Moved Permanently"
      [] code = 400 -> "Bad Request"
      [] code = 404 -> "Not Found"
      [] code = 500 -> "Internal Server Error"
      [] OTHER -> ""

\* json.Decoder.Decode of the body: the error it gives, "" for none.
DecodeErr(body) ==
    CASE body.kind = "empty" -> "EOF"
      [] body.kind = "garbage" -> "invalid character"
      [] OTHER -> ""

Returns(rq, ret) == [rq EXCEPT !.st = "done", !.ret = ret]

\* DoResponse returning r.err for a status of 400 or more.
DoResponseOwnError(rq, resp) ==
    IF rq.method = "HEAD"
    THEN IF resp.StatusCode <= 300 THEN Returns(rq, "nil")
         ELSE Returns([Errorf(rq, StatusText(resp.StatusCode))
                         EXCEPT !.err.Code = resp.StatusCode], "err")
    ELSE IF MediaType(resp.ct) # "application/json"
    THEN Returns(Errorf(Errorf(rq, "Cannot handle content-type %s"),
                        "No decoder for content-type %s"), "err")
    ELSE IF resp.StatusCode >= 400
    THEN Returns([AddError(rq, "server error")
                    EXCEPT !.err.Code = resp.StatusCode], "err")
    ELSE Returns(rq, HasError(rq))

\* DoResponse decoding whatever the content type is.
DoResponseAnyType(rq, resp) ==
    IF resp.StatusCode >= 400
    THEN Returns([rq EXCEPT !.res = [NoError EXCEPT !.Code = resp.body.Code,
                                             !.Messages = resp.body.Messages]],
                 "res")
    ELSE IF rq.val # "nil" /\ ContentLength(resp) # 0 /\ DecodeErr(resp.body) = ""
    THEN Returns([rq EXCEPT !.decoded = "val"], HasError(rq))
    ELSE Returns(rq, HasError(rq))

\* DoResponse taking a HEAD response like any other.
DoResponseHeadDecodes(rq, resp) ==
    IF MediaType(resp.ct) # "application/json"
    THEN Returns(Errorf(Errorf(rq, "Cannot handle content-type %s"),
                        "No decoder for content-type %s"), "err")
    ELSE IF resp.StatusCode >= 400
    THEN Returns([rq EXCEPT !.res = [NoError EXCEPT !.Code = resp.body.Code,
                                             !.Messages = resp.body.Messages]],
                 "res")
    ELSE Returns(rq, HasError(rq))

\* Do from r.Resp = resp on:
\*   a writer val and a status below 300: the body is copied to val;
\*   HEAD: nil for a status up to 300, otherwise r.err with the status text
\*     and the status as its Code;
\*   a content type other than application/json: r.err, two messages;
\*   a status of 400 or more: the models.Error decoded from the body is
\*     returned, or r.err with the decoding error and the status as Code;
\*   otherwise the body is decoded into val (unless val is nil or the
\*     content length is 0) and r.err.HasError() is returned.
DoResponse(rq, resp) ==
    IF rq.val = "writer" /\ resp.StatusCode < 300
    THEN Returns([rq EXCEPT !.decoded = "copied"], HasError(rq))
    ELSE IF rq.method = "HEAD"
    THEN IF resp.StatusCode <= 300 THEN Returns(rq, "nil")
         ELSE Returns([Errorf(rq, StatusText(resp.StatusCode))
                         EXCEPT !.err.Code = resp.StatusCode], "err")
    ELSE IF MediaType(resp.ct) # "application/json"
    THEN Returns(Errorf(Errorf(rq, "Cannot handle content-type %s"),
                        "No decoder for content-type %s"), "err")
    ELSE IF resp.StatusCode >= 400
    THEN IF DecodeErr(resp.body) # ""
         THEN Returns([AddError(rq, DecodeErr(resp.body))
                         EXCEPT !.err.Code = resp.StatusCode], "err")
         ELSE Returns([rq EXCEPT !.res = [NoError EXCEPT
                                            !.Code = resp.body.Code,
                                            !.Messages = resp.body.Messages]],
                      "res")
    ELSE LET r1 == IF rq.val # "nil" /\ ContentLength(resp) # 0
                   THEN IF DecodeErr(resp.body) # ""
                        THEN AddError(rq, DecodeErr(resp.body))
                        ELSE [rq EXCEPT !.decoded = "val"]
                   ELSE rq
         IN Returns(r1, HasError(r1))

\* Do after c.Do(req): a transport error is added to r.err, which is
\* returned; otherwise the response is kept in r.Resp and handled.
DoResult(rq, resp) ==
    IF resp.err
    THEN Returns(AddError(rq, "transport error"), "err")
    ELSE DoResponse([rq EXCEPT !.Resp = resp], resp)

(***************************************************************************)
(* The calls that set the body: Body, PatchObj, PatchTo, and UrlForM.      *)
(* A model (models.Model) is its Prefix and its Key.                       *)
(***************************************************************************)
\* R.Body: b is nil, an io.Reader, a []byte, a value json.Marshal encodes
\* ("obj") or one it cannot encode ("unmarshalable").
Body(rq, b) ==
    CASE b = "nil" -> Headers(rq, <<"Content-Type", "application/json">>)
      [] b \in {"reader", "bytes"} ->
           [Headers(rq, <<"Content-Type", "application/octet-stream">>)
              EXCEPT !.body = b]
      [] b = "unmarshalable" ->
           AddError(Headers(rq, <<"Content-Type", "application/json">>),
                    "json: unsupported type")
      [] OTHER ->
           [Headers(rq, <<"Content-Type", "application/json">>)
              EXCEPT !.body = "json"]

\* R.ParanoidPatch
ParanoidPatch(rq) == [rq EXCEPT !.paranoid = TRUE]

\* A model (models.Model): its Prefix, its Key and the values of its fields.
Fields == <<"Description", "Owner">>

Values == {"x", "y"}

Snapshots == [RangeOf(Fields) -> Values]

\* The operations GenPatch emits for the fields from the i-th on: for a
\* field whose value differs a replace, in paranoid mode preceded by a test
\* of the old value.
RECURSIVE GenOps(_, _, _, _)
GenOps(old, new, paranoid, i) ==
    IF i > Len(Fields) THEN <<>>
    ELSE LET f == Fields[i]
             ops == IF old[f] = new[f] THEN <<>>
                    ELSE (IF paranoid
                          THEN <<[op |-> "test", path |-> f, value |-> old[f]]>>
                          ELSE <<>>)
                         \o <<[op |-> "replace", path |-> f, value |-> new[f]]>>
         IN ops \o GenOps(old, new, paranoid, i + 1)

\* GenPatch(old, new, paranoid): the edit script from old to new.
GenPatch(old, new, paranoid) == GenOps(old.data, new.data, paranoid, 1)

\* The server applying a patch to the snapshot it holds: a test that does
\* not match rejects the whole patch.
RECURSIVE Apply(_, _)
Apply(patch, snap) ==
    IF patch = <<>> THEN snap
    ELSE LET o == patch[1] IN
         IF o.op = "test"
         THEN IF snap[o.path] = o.value THEN Apply(Tail(patch), snap)
              ELSE "rejected"
         ELSE Apply(Tail(patch), [snap EXCEPT ![o.path] = o.value])

\* PatchObj generating a paranoid patch whatever r.paranoid is.
PatchObjAlwaysParanoid(rq, generated, old, new) ==
    IF ~generated THEN AddError(rq, "GenPatch: cannot generate patch")
    ELSE [Body(Meth(rq, "PATCH"), "obj")
            EXCEPT !.patch = GenPatch(old, new, TRUE)]

\* PatchObj generating the patch from new to old.
PatchObjSwapped(rq, generated, old, new) ==
    IF ~generated THEN AddError(rq, "GenPatch: cannot generate patch")
    ELSE [Body(Meth(rq, "PATCH"), "obj")
            EXCEPT !.patch = GenPatch(new, old, rq.paranoid)]

\* PatchObj not passing r.paranoid on.
PatchObjNeverParanoid(rq, generated, old, new) ==
    IF ~generated THEN AddError(rq, "GenPatch: cannot generate patch")
    ELSE [Body(Meth(rq, "PATCH"), "obj")
            EXCEPT !.patch = GenPatch(old, new, FALSE)]

\* R.PatchObj: generated says whether GenPatch(old, new, r.paranoid) gave a
\* patch or an error.
PatchObj(rq, generated, old, new) ==
    IF ~generated THEN AddError(rq, "GenPatch: cannot generate patch")
    ELSE [Body(Meth(rq, "PATCH"), "obj")
            EXCEPT !.patch = GenPatch(old, new, rq.paranoid)]

\* R.UrlForM
UrlForM(rq, parsed, m) ==
    UrlFor([rq EXCEPT !.err.Model = m.Prefix, !.err.Key = m.Key],
           parsed, <<m.Prefix, m.Key>>)

\* PatchTo comparing the prefixes only.
PatchToPrefixOnly(rq, generated, parsed, old, new) ==
    IF old.Prefix # new.Prefix
    THEN Errorf([rq EXCEPT !.err.Model = old.Key],
                "Cannot patch from %T to %T, or change keys from %s to %s")
    ELSE UrlForM(PatchObj(rq, generated, old, new), parsed, old)

\* R.PatchTo
PatchTo(rq, generated, parsed, old, new) ==
    IF old.Prefix # new.Prefix \/ old.Key # new.Key
    THEN Errorf([rq EXCEPT !.err.Model = old.Key],
                "Cannot patch from %T to %T, or change keys from %s to %s")
    ELSE UrlForM(PatchObj(rq, generated, old, new), parsed, old)

\* R.Fill and R.Delete up to the checks of their Do: r.err.Model is
\* assigned the prefix and then the key; closed is what Do's read of
\* c.closed gives.
Fill(rq, closed, parsed, m) ==
    LET r1 == [[rq EXCEPT !.err.Model = m.Prefix] EXCEPT !.err.Model = m.Key]
    IN IF m.Key = ""
       THEN Returns(Errorf(r1, "Cannot Fill %s with an empty key"), "err")
       ELSE DoCheck(UrlForM(Get(r1), parsed, m), closed, "obj")

Delete(rq, closed, parsed, m) ==
    LET r1 == [[rq EXCEPT !.err.Model = m.Prefix] EXCEPT !.err.Model = m.Key]
    IN IF m.Key = ""
       THEN Returns(Errorf(r1, "Cannot Delete %s with an empty key"), "err")
       ELSE DoCheck(UrlForM(Del(r1), parsed, m), closed, "obj")

(***************************************************************************)
(* The session.                                                            *)
(***************************************************************************)
NoClient ==
    [kind |-> "none", token |-> NoToken, closer |-> "open", closed |-> FALSE,
     mux |-> "free", traceLvl |-> "", traceToken |-> ""]

\* params is the set of the <<name, value>> pairs that the calls of Params
\* which recorded no error were given for the descriptor's current URL.
\* Observations: whether a request was sent with an expired token, the
\* renewal requests sent, whether a renewal request failed, and the models
\* the descriptor's PatchTo or PatchObj was called with, beside the
\* descriptor's paranoid flag at that call.  login is the
\* Authorization header of the request that UserSession sent.
NoPatchArgs == [fn |-> "none"]

NoObs == [sentExpired |-> FALSE, reauths |-> 0, renewFailed |-> FALSE,
          patchArgs |-> NoPatchArgs, login |-> <<>>,
          reqTrace |-> [lvl |-> "", token |-> ""], params |-> {}]

Running == proc = "running"

Init ==
    /\ c = NoClient
    /\ bg = [pc |-> "none", tok |-> NoToken]
    /\ closePc = [pc |-> "idle", calls |-> 0]
    /\ proc = "running"
    /\ now = 0
    /\ ticker = [on |-> FALSE, pending |-> FALSE]
    /\ r = NoR
    /\ filterArgs = <<>>
    /\ obs = NoObs

\* TokenSession starting the renewal goroutine of UserSession.
TokenSessionRenewing ==
    /\ Running /\ c.kind = "none"
    /\ c' = [c EXCEPT !.kind = "token", !.token = [id |-> 1, issued |-> 0]]
    /\ bg' = [bg EXCEPT !.pc = "select"]
    /\ ticker' = [on |-> TRUE, pending |-> FALSE]
    /\ UNCHANGED <<closePc, proc, now, r, filterArgs, obs>>

\* TokenSession: the client holds the passed-in token; the goroutine it
\* starts only receives once from c.closer.
TokenSession ==
    /\ Running /\ c.kind = "none"
    /\ c' = [c EXCEPT !.kind = "token", !.token = [id |-> 1, issued |-> 0]]
    /\ bg' = [bg EXCEPT !.pc = "recv"]
    /\ UNCHANGED <<closePc, proc, now, ticker, r, filterArgs, obs>>

\* The request of UserSession, as it is sent:
\* c.Req().UrlFor("users", c.username, "token").
\*   Headers("Authorization", "Basic "+basicAuth).Do(&token)
LoginR ==
    Authorize(DoCheck(Headers(UrlFor(NewR, TRUE, <<"users", "username", "token">>),
                              <<"Authorization", [scheme |-> "Basic", tok |-> 0]>>),
                      FALSE, "obj"),
              NoToken)

\* UserSession: one request with basic authentication for the first token;
\* on failure no client is returned, on success the renewal goroutine and
\* its ticker are started.
UserSession(ok) ==
    /\ Running /\ c.kind = "none"
    /\ IF ok
       THEN /\ c' = [c EXCEPT !.kind = "user", !.token = [id |-> 1, issued |-> now]]
            /\ bg' = [bg EXCEPT !.pc = "select"]
            /\ ticker' = [on |-> TRUE, pending |-> FALSE]
       ELSE UNCHANGED <<c, bg, ticker>>
    /\ obs' = [obs EXCEPT !.login = LoginR.header.Authorization]
    /\ UNCHANGED <<closePc, proc, now, r, filterArgs>>

(***************************************************************************)
(* Time.  The ticker puts a tick in its channel (of capacity one) every    *)
(* RenewPeriod; a tick that finds the channel full is dropped.  The clock  *)
(* is a simulated one: it moves on only when the renewal goroutine has     *)
(* finished the work of the ticks delivered so far.                        *)
(***************************************************************************)
RenewalIdle == ticker.on => (bg.pc = "select" /\ ~ticker.pending)

Advance ==
    /\ Running /\ c.kind # "none" /\ now < MaxTime
    /\ RenewalIdle
    /\ now' = now + 1
    /\ ticker' = IF ticker.on /\ now' % RenewPeriod = 0
                 THEN [ticker EXCEPT !.pending = TRUE]
                 ELSE ticker
    /\ UNCHANGED <<c, bg, closePc, proc, r, filterArgs, obs>>

(***************************************************************************)
(* The caller's goroutine: one request descriptor at a time.               *)
(***************************************************************************)
Called(rq) == [rq EXCEPT !.calls = @ + 1]

CanCall == Running /\ r.st = "built" /\ r.calls < MaxCalls

\* Client.Trace and Client.TraceToken, under c.mux.
TraceLevels == {"", "debug", "trace"}

TraceTokens == {"", "t1", "t2"}

Trace(lvl) ==
    /\ Running /\ c.kind # "none" /\ c.mux = "free"
    /\ c' = [c EXCEPT !.traceLvl = lvl]
    /\ UNCHANGED <<bg, closePc, proc, now, ticker, r, filterArgs, obs>>

TraceToken(t) ==
    /\ Running /\ c.kind # "none" /\ c.mux = "free"
    /\ c' = [c EXCEPT !.traceToken = t]
    /\ UNCHANGED <<bg, closePc, proc, now, ticker, r, filterArgs, obs>>

\* The descriptor that Client.Req returns without the session's trace
\* level and token.
ClientReqUntraced(cl) == NewR

\* The descriptor that Client.Req returns.
ClientReq(cl) ==
    [NewR EXCEPT !.traceLvl = cl.traceLvl, !.traceToken = cl.traceToken]

\* What a new descriptor starts from in the observations: no patch
\* arguments, and the session's trace level and token of this moment.
ObsReq ==
    [obs EXCEPT !.patchArgs = NoPatchArgs,
                !.reqTrace = [lvl |-> c.traceLvl, token |-> c.traceToken],
                !.params = {}]

\* Client.Req, under c.mux.
Req ==
    /\ Running /\ c.kind # "none" /\ c.mux = "free"
    /\ r.st \in {"none", "built", "done"}
    /\ r' = ClientReq(c)
    /\ filterArgs' = <<>>
    /\ obs' = ObsReq
    /\ UNCHANGED <<c, bg, closePc, proc, now, ticker>>

\* The pairs of the arguments of a call of Params.
PairsOf(args) ==
    {<<args[i], args[i + 1]>> : i \in {j \in 1..(Len(args) - 1) : j % 2 = 1}}

\* The observations after a call that gave the descriptor r1: a new URL has
\* no parameters yet.
ObsUrl(r1) == [obs EXCEPT !.params = IF r1.uri = r.uri THEN @ ELSE {}]

CallUrlFor(parsed) ==
    /\ CanCall
    /\ r' = Called(UrlFor(r, parsed, <<"info">>))
    /\ obs' = ObsUrl(r')
    /\ UNCHANGED <<c, bg, closePc, proc, now, ticker, filterArgs>>

\* The models, Params arguments, Headers arguments and bodies the calls
\* are made with.
Model(prefix, key, data) == [Key |-> key, data |-> data, Prefix |-> prefix]

Machine(key) ==
    Model("machines", key, [f \in RangeOf(Fields) |-> IF key = "foo" THEN "x" ELSE "y"])

Models == {Model(prefix, key, data) : prefix \in {"machines", "bootenvs"},
                                      key \in {"foo", "bar"},
                                      data \in Snapshots}

ParamArgs == {<<S_ttl>>, <<S_ttl, S_600>>}

HeaderArgs == {<<"Authorization">>,
               <<"Authorization", [scheme |-> "Custom", tok |-> 0]>>}

BasicAuth == [scheme |-> "Basic", tok |-> 0]

AuthArgs == {<<"Authorization", BasicAuth>>, <<"Authorization", EmptyValue>>}

Bodies == {"bytes", "obj", "unmarshalable"}

ChainFilterArgs == {<<S_sort>>, <<S_limit, S_10>>}

CallUrlForM(parsed) ==
    /\ CanCall
    /\ r' = Called(UrlForM(r, parsed, Machine("foo")))
    /\ obs' = ObsUrl(r')
    /\ UNCHANGED <<c, bg, closePc, proc, now, ticker, filterArgs>>

CallParams(args) ==
    /\ CanCall
    /\ r' = Called(Params(r, args))
    /\ obs' = [obs EXCEPT !.params =
                            IF r'.err = r.err THEN @ \cup PairsOf(args) ELSE @]
    /\ UNCHANGED <<c, bg, closePc, proc, now, ticker, filterArgs>>

\* Filter passes its finalParams to Params after a new URL.
CallFilter(parsed, args) ==
    /\ CanCall
    /\ r' = Called(Filter(r, parsed, "machines", args))
    /\ filterArgs' = args
    /\ obs' = [obs EXCEPT !.params =
                 IF r'.err = r.err
                 THEN PairsOf(FilterLoop(args, 0, <<>>).finalParams)
                 ELSE IF r'.uri = r.uri THEN @ ELSE {}]
    /\ UNCHANGED <<c, bg, closePc, proc, now, ticker>>

CallHeaders(args) ==
    /\ CanCall
    /\ r' = Called(Headers(r, args))
    /\ UNCHANGED <<c, bg, closePc, proc, now, ticker, filterArgs, obs>>

CallBody(b) ==
    /\ CanCall
    /\ r' = Called(Body(r, b))
    /\ UNCHANGED <<c, bg, closePc, proc, now, ticker, filterArgs, obs>>

CallParanoidPatch ==
    /\ CanCall
    /\ r' = Called(ParanoidPatch(r))
    /\ UNCHANGED <<c, bg, closePc, proc, now, ticker, filterArgs, obs>>

CallPatchObj(generated, old, new) ==
    /\ CanCall
    /\ r' = Called(PatchObj(r, generated, old, new))
    /\ obs' = [obs EXCEPT !.patchArgs =
                            [fn |-> "PatchObj", old |-> old, new |-> new,
                             paranoid |-> r.paranoid]]
    /\ UNCHANGED <<c, bg, closePc, proc, now, ticker, filterArgs>>

CallPatchTo(old, new) ==
    /\ CanCall
    /\ r' = Called(PatchTo(r, TRUE, TRUE, old, new))
    /\ obs' = [ObsUrl(r') EXCEPT !.patchArgs =
                                   [fn |-> "PatchTo", old |-> old, new |-> new,
                                    paranoid |-> r.paranoid]]
    /\ UNCHANGED <<c, bg, closePc, proc, now, ticker, filterArgs>>

\* Fill and Delete, which end the chain with their own Do.
CallFill(m) ==
    /\ CanCall
    /\ r' = Fill(Called(r), c.closed, TRUE, m)
    /\ obs' = [ObsUrl(r') EXCEPT !.patchArgs =
                                   [fn |-> "Fill", old |-> m, new |-> m,
                                    paranoid |-> r.paranoid]]
    /\ UNCHANGED <<c, bg, closePc, proc, now, ticker, filterArgs>>

CallDelete(m) ==
    /\ CanCall
    /\ r' = Delete(Called(r), c.closed, TRUE, m)
    /\ obs' = [ObsUrl(r') EXCEPT !.patchArgs =
                                   [fn |-> "Delete", old |-> m, new |-> m,
                                    paranoid |-> r.paranoid]]
    /\ UNCHANGED <<c, bg, closePc, proc, now, ticker, filterArgs>>

DoBegin(val) ==
    /\ Running /\ r.st \in {"built", "done"} /\ r.calls < MaxCalls
    /\ r' = DoCheck(Called(r), c.closed, val)
    /\ UNCHANGED <<c, bg, closePc, proc, now, ticker, filterArgs, obs>>

\* r.c.Authorize(req), which reads c.token without taking c.mux, and the
\* hand-over to the transport.
DoSend ==
    /\ Running /\ r.st = "checked"
    /\ LET r1 == Authorize(r, c.token)
       IN /\ r' = [r1 EXCEPT !.st = "sent", !.sends = @ + 1, !.readMux = c.mux]
          /\ obs' = [obs EXCEPT !.sentExpired = @ \/ SendsExpired(r1, c.token, now)]
    /\ UNCHANGED <<c, bg, closePc, proc, now, ticker, filterArgs>>

\* The responses of the session's server: a transport failure, an error and
\* a success.
Outcomes ==
    {TransportFailure,
     [err |-> FALSE, StatusCode |-> 500, ct |-> "application/json",
      body |-> [kind |-> "error", Code |-> 500,
                Messages |-> <<"server message">>],
      chunked |-> FALSE],
     [err |-> FALSE, StatusCode |-> 200, ct |-> "application/json",
      body |-> [kind |-> "object", Code |-> 0, Messages |-> <<>>],
      chunked |-> FALSE]}

\* The end of the method that runs the Do: ExistsModel turns the error of
\* Do into its two results, a *models.Error with Code 404 into (false, nil).
ExistsModelReturn(rq) ==
    LET code == IF rq.ret = "err" THEN rq.err.Code
                ELSE IF rq.ret = "res" THEN rq.res.Code ELSE 0
    IN IF rq.ret # "nil" /\ code = 404
       THEN [ok |-> FALSE, err |-> "nil"]
       ELSE [ok |-> rq.ret = "nil", err |-> rq.ret]

Return(rq) ==
    IF rq.st = "done" /\ rq.op = "ExistsModel"
    THEN [rq EXCEPT !.exists = ExistsModelReturn(rq)]
    ELSE rq

DoRecv(outcome) ==
    /\ Running /\ r.st = "sent"
    /\ r' = [Return(DoResult(r, outcome)) EXCEPT !.recv = outcome]
    /\ UNCHANGED <<c, bg, closePc, proc, now, ticker, filterArgs, obs>>

\* Client.ExistsModel up to the checks of its Do:
\* c.Req().Head().UrlFor(prefix, key).Do(nil)
ExistsModel(parsed) ==
    /\ Running /\ c.kind # "none" /\ c.mux = "free"
    /\ r.st \in {"none", "built", "done"}
    /\ LET r1 == UrlFor(MethHead([ClientReq(c) EXCEPT !.op = "ExistsModel"]),
                        parsed, <<"machines", "foo">>)
       IN r' = Return(DoCheck(Called(r1), c.closed, "nil"))
    /\ filterArgs' = <<>>
    /\ obs' = ObsReq
    /\ UNCHANGED <<c, bg, closePc, proc, now, ticker>>

\* A descriptor with a method and a URL, as the methods of Client build it:
\* c.Req().Meth(method).UrlFor(...)
ReqFor(method) ==
    /\ Running /\ c.kind # "none" /\ c.mux = "free"
    /\ r.st \in {"none", "built", "done"}
    /\ r' = Called(UrlFor(Meth(ClientReq(c), method), TRUE,
                          <<"machines", "foo">>))
    /\ filterArgs' = <<>>
    /\ obs' = ObsReq
    /\ UNCHANGED <<c, bg, closePc, proc, now, ticker>>

(***************************************************************************)
(* Close, called from a goroutine of its own.                              *)
(***************************************************************************)
CloseCall ==
    /\ Running /\ c.kind # "none"
    /\ closePc.pc = "idle" /\ closePc.calls < MaxCloses
    /\ closePc' = [pc |-> "send", calls |-> closePc.calls + 1]
    /\ UNCHANGED <<c, bg, proc, now, ticker, r, filterArgs, obs>>

\* c.closer <- struct{}{} on a closed channel panics.
CloseSendPanic ==
    /\ Running /\ closePc.pc = "send" /\ c.closer = "closed"
    /\ proc' = "panicked"
    /\ UNCHANGED <<c, bg, closePc, now, ticker, r, filterArgs, obs>>

\* The send on the unbuffered c.closer completes with a receive.
CloseSend == Running /\ closePc.pc = "send" /\ c.closer = "open"

\* close(c.closer); c.closed = true
CloseFinish ==
    /\ Running /\ closePc.pc = "close"
    /\ c' = [c EXCEPT !.closer = "closed", !.closed = TRUE]
    /\ closePc' = [closePc EXCEPT !.pc = "idle"]
    /\ UNCHANGED <<bg, proc, now, ticker, r, filterArgs, obs>>

(***************************************************************************)
(* The background goroutines.                                              *)
(***************************************************************************)
\* TokenSession's goroutine: <-c.closer
TokenCloserRecv ==
    /\ CloseSend /\ bg.pc = "recv"
    /\ bg' = [bg EXCEPT !.pc = "done"]
    /\ closePc' = [closePc EXCEPT !.pc = "close"]
    /\ UNCHANGED <<c, proc, now, ticker, r, filterArgs, obs>>

\* RenewClose leaving the select but not the loop.
RenewCloseBreak ==
    /\ CloseSend /\ bg.pc = "select"
    /\ ticker' = [ticker EXCEPT !.on = FALSE]
    /\ closePc' = [closePc EXCEPT !.pc = "close"]
    /\ UNCHANGED <<c, bg, proc, now, r, filterArgs, obs>>

\* UserSession's goroutine, case <-c.closer: ticker.Stop(); return
RenewClose ==
    /\ CloseSend /\ bg.pc = "select"
    /\ bg' = [bg EXCEPT !.pc = "done"]
    /\ ticker' = [ticker EXCEPT !.on = FALSE]
    /\ closePc' = [closePc EXCEPT !.pc = "close"]
    /\ UNCHANGED <<c, proc, now, r, filterArgs, obs>>

\* case <-ticker.C
RenewTick ==
    /\ Running /\ bg.pc = "select" /\ ticker.pending
    /\ ticker' = [ticker EXCEPT !.pending = FALSE]
    /\ bg' = [bg EXCEPT !.pc = "reauth"]
    /\ UNCHANGED <<c, closePc, proc, now, r, filterArgs, obs>>

\* Client.reauth: the request of the renewal goroutine.
ReauthR == Params(UrlFor(NewR, TRUE, <<"users", "username", "token">>),
                  <<S_ttl, S_600>>)

\* RenewReauth logging the error and going on with the old token.
RenewReauthLogOnly(ok) ==
    /\ Running /\ bg.pc = "reauth" /\ c.mux = "free"
    /\ IF ok
       THEN /\ bg' = [pc |-> "lock",
                      tok |-> [id |-> c.token.id + 1, issued |-> now]]
            /\ obs' = [obs EXCEPT !.reauths = @ + 1]
       ELSE /\ bg' = [bg EXCEPT !.pc = "select"]
            /\ obs' = [obs EXCEPT !.reauths = @ + 1, !.renewFailed = TRUE]
    /\ UNCHANGED <<c, closePc, proc, now, ticker, r, filterArgs>>

\* c.reauth(token); an error is fatal to the process (log.Fatalf).  The
\* server issues a token it has not issued before, and refuses a request
\* that carries an expired one.
RenewReauth(ok) ==
    /\ Running /\ bg.pc = "reauth" /\ c.mux = "free"
    /\ LET r1 == DoCheck(ReauthR, c.closed, "obj") IN
       IF r1.st = "done"
       THEN /\ proc' = "exited"
            /\ obs' = [obs EXCEPT !.renewFailed = TRUE]
            /\ bg' = bg
       ELSE LET expired == SendsExpired(Authorize(r1, c.token), c.token, now) IN
            IF ok /\ ~expired
            THEN /\ bg' = [pc |-> "lock",
                           tok |-> [id |-> c.token.id + 1, issued |-> now]]
                 /\ obs' = [obs EXCEPT !.reauths = @ + 1]
                 /\ proc' = proc
            ELSE /\ proc' = "exited"
                 /\ obs' = [obs EXCEPT !.reauths = @ + 1, !.renewFailed = TRUE,
                                       !.sentExpired = @ \/ expired]
                 /\ bg' = bg
    /\ UNCHANGED <<c, closePc, now, ticker, r, filterArgs>>

\* c.mux.Lock()
RenewLock ==
    /\ Running /\ bg.pc = "lock" /\ c.mux = "free"
    /\ c' = [c EXCEPT !.mux = "renew"]
    /\ bg' = [bg EXCEPT !.pc = "swap"]
    /\ UNCHANGED <<closePc, proc, now, ticker, r, filterArgs, obs>>

\* RenewSwap assigning to the goroutine's own variable only.
RenewSwapLost ==
    /\ Running /\ bg.pc = "swap"
    /\ bg' = [bg EXCEPT !.pc = "unlock"]
    /\ UNCHANGED <<c, closePc, proc, now, ticker, r, filterArgs, obs>>

\* c.token = token
RenewSwap ==
    /\ Running /\ bg.pc = "swap"
    /\ c' = [c EXCEPT !.token = bg.tok]
    /\ bg' = [bg EXCEPT !.pc = "unlock"]
    /\ UNCHANGED <<closePc, proc, now, ticker, r, filterArgs, obs>>

\* RenewUnlock with the goroutine returning instead of going round the loop.
RenewUnlockReturns ==
    /\ Running /\ bg.pc = "unlock"
    /\ c' = [c EXCEPT !.mux = "free"]
    /\ bg' = [pc |-> "done", tok |-> NoToken]
    /\ UNCHANGED <<closePc, proc, now, ticker, r, filterArgs, obs>>

\* c.mux.Unlock(), and back to the select
RenewUnlock ==
    /\ Running /\ bg.pc = "unlock"
    /\ c' = [c EXCEPT !.mux = "free"]
    /\ bg' = [pc |-> "select", tok |-> NoToken]
    /\ UNCHANGED <<closePc, proc, now, ticker, r, filterArgs, obs>>

(***************************************************************************)
(* The session and its goroutines.                                         *)
(***************************************************************************)
Next ==
    \/ TokenSession
    \/ \E ok \in BOOLEAN : UserSession(ok)
    \/ Advance
    \/ Req
    \/ \E parsed \in BOOLEAN : r.calls < MaxSessionCalls /\ CallUrlFor(parsed)
    \/ r.calls <= MaxSessionCalls /\ DoBegin("obj")
    \/ DoSend
    \/ \E outcome \in Outcomes : DoRecv(outcome)
    \/ CloseCall
    \/ CloseSendPanic
    \/ CloseFinish
    \/ TokenCloserRecv
    \/ RenewClose
    \/ RenewTick
    \/ \E ok \in BOOLEAN : RenewReauth(ok)
    \/ RenewLock
    \/ RenewSwap
    \/ RenewUnlock

Spec == Init /\ [][Next]_vars

(***************************************************************************)
(* One descriptor of a token session and the chain of calls made on it.    *)
(***************************************************************************)
InitToken ==
    /\ c = [NoClient EXCEPT !.kind = "token", !.token = [id |-> 1, issued |-> 0]]
    /\ bg = [pc |-> "recv", tok |-> NoToken]
    /\ closePc = [pc |-> "idle", calls |-> 0]
    /\ proc = "running"
    /\ now = 0
    /\ ticker = [on |-> FALSE, pending |-> FALSE]
    /\ r = NoR
    /\ filterArgs = <<>>
    /\ obs = NoObs

NextReq ==
    \/ Req
    \/ \E parsed \in BOOLEAN : CallUrlFor(parsed)
    \/ \E parsed \in BOOLEAN : CallUrlForM(parsed)
    \/ \E args \in ParamArgs : CallParams(args)
    \/ \E args \in ChainFilterArgs : CallFilter(TRUE, args)
    \/ \E args \in HeaderArgs : CallHeaders(args)
    \/ \E b \in Bodies : CallBody(b)
    \/ \E generated \in BOOLEAN :
         CallPatchObj(generated, Machine("foo"), Machine("bar"))
    \/ \E key \in {"foo", "bar"} : CallPatchTo(Machine("foo"), Machine(key))
    \/ \E val \in {"nil", "obj", "writer"} : DoBegin(val)
    \/ DoSend
    \/ \E outcome \in Outcomes : DoRecv(outcome)
    \/ CloseCall
    \/ TokenCloserRecv
    \/ CloseFinish

SpecReq == InitToken /\ [][NextReq]_vars

(***************************************************************************)
(* Filter on a fresh descriptor, with every list of at most MaxTokens      *)
(* tokens, and the Do that follows.                                        *)
(***************************************************************************)
Tokens == {S_reverse, S_limit, S_name, S_Eq, S_BETWEEN, S_foo, S_10}

RECURSIVE SeqsUpTo(_, _)
SeqsUpTo(S, n) ==
    IF n = 0 THEN {<<>>}
    ELSE LET shorter == SeqsUpTo(S, n - 1)
         IN shorter \cup {Append(q, t) : q \in {x \in shorter : Len(x) = n - 1},
                                         t \in S}

TokenSeqs == SeqsUpTo(Tokens, MaxTokens)

FreshFilter ==
    /\ CanCall /\ r.calls = 0
    /\ \E parsed \in BOOLEAN, args \in TokenSeqs : CallFilter(parsed, args)

NextFilter ==
    \/ Req
    \/ FreshFilter
    \/ DoBegin("obj")
    \/ DoSend
    \/ \E outcome \in Outcomes : DoRecv(outcome)

SpecFilter == InitToken /\ [][NextFilter]_vars

(***************************************************************************)
(* The first Do of a descriptor, and ExistsModel, with every response.     *)
(***************************************************************************)
Methods == {"GET", "HEAD", "POST"}

Vals == {"nil", "obj", "writer"}

NextDo ==
    \/ \E method \in Methods : ReqFor(method)
    \/ \E parsed \in BOOLEAN : ExistsModel(parsed)
    \/ \E args \in HeaderArgs : CallHeaders(args)
    \/ \E val \in Vals : r.st = "built" /\ DoBegin(val)
    \/ DoSend
    \/ \E resp \in Responses : DoRecv(resp)
    \/ CloseCall
    \/ TokenCloserRecv
    \/ CloseFinish

SpecDo == InitToken /\ [][NextDo]_vars

(***************************************************************************)
(* The requests of a session that renews its token, with and without an    *)
(* Authorization header of the caller's.                                   *)
(***************************************************************************)
NextAuth ==
    \/ \E ok \in BOOLEAN : UserSession(ok)
    \/ Advance
    \/ c.kind = "user" /\ ReqFor("GET")
    \/ \E args \in AuthArgs : CallHeaders(args)
    \/ r.st = "built" /\ DoBegin("obj")
    \/ DoSend
    \/ \E outcome \in Outcomes : DoRecv(outcome)
    \/ RenewTick
    \/ \E ok \in BOOLEAN : RenewReauth(ok)
    \/ RenewLock
    \/ RenewSwap
    \/ RenewUnlock

SpecAuth == Init /\ [][NextAuth]_vars

(***************************************************************************)
(* PatchTo on a fresh descriptor (as Client.PatchToFull calls it, after    *)
(* ParanoidPatch when paranoid), with every pair of models, and the Do     *)
(* that follows.                                                           *)
(***************************************************************************)
FreshPatchTo ==
    /\ CanCall /\ obs.patchArgs.fn = "none"
    /\ \E old \in Models, new \in Models : CallPatchTo(old, new)

NextPatch ==
    \/ Req
    \/ r.calls = 0 /\ CallParanoidPatch
    \/ FreshPatchTo
    \/ DoBegin("obj")
    \/ DoSend
    \/ \E outcome \in Outcomes : DoRecv(outcome)
    \/ CloseCall
    \/ TokenCloserRecv
    \/ CloseFinish

SpecPatch == InitToken /\ [][NextPatch]_vars

(***************************************************************************)
(* Close and the goroutine of the session, under a fair scheduler: a       *)
(* goroutine that can take its next step takes it, and the renewal request *)
(* returns, with a token or with an error.                                 *)
(***************************************************************************)
NextClose ==
    \/ TokenSession
    \/ \E ok \in BOOLEAN : UserSession(ok)
    \/ Advance
    \/ CloseCall
    \/ CloseSendPanic
    \/ CloseFinish
    \/ TokenCloserRecv
    \/ RenewClose
    \/ RenewTick
    \/ \E ok \in BOOLEAN : RenewReauth(ok)
    \/ RenewLock
    \/ RenewSwap
    \/ RenewUnlock

FairClose ==
    /\ WF_vars(CloseFinish)
    /\ WF_vars(TokenCloserRecv)
    /\ WF_vars(RenewClose)
    /\ WF_vars(RenewTick)
    /\ WF_vars(\E ok \in BOOLEAN : RenewReauth(ok))
    /\ WF_vars(RenewLock)
    /\ WF_vars(RenewSwap)
    /\ WF_vars(RenewUnlock)

SpecClose == Init /\ [][NextClose]_vars /\ FairClose

(***************************************************************************)
(* Fill, Delete and PatchTo on models with and without a key.              *)
(***************************************************************************)
ModelArgs == {Machine(key) : key \in {"", "foo", "bar"}}

NextModel ==
    \/ Req
    \/ \E m \in ModelArgs : CallFill(m)
    \/ \E m \in ModelArgs : CallDelete(m)
    \/ \E old \in ModelArgs, new \in ModelArgs :
         obs.patchArgs.fn = "none" /\ CallPatchTo(old, new)
    \/ DoBegin("obj")
    \/ DoSend
    \/ \E outcome \in Outcomes : DoRecv(outcome)
    \/ CloseCall
    \/ TokenCloserRecv
    \/ CloseFinish

SpecModel == InitToken /\ [][NextModel]_vars

(***************************************************************************)
(* PatchTo with ParanoidPatch called before it, after it or not at all.    *)
(***************************************************************************)
NextParanoid ==
    \/ Req
    \/ CallParanoidPatch
    \/ FreshPatchTo
    \/ DoBegin("obj")
    \/ DoSend
    \/ \E outcome \in Outcomes : DoRecv(outcome)

SpecParanoid == InitToken /\ [][NextParanoid]_vars

(***************************************************************************)
(* The session's trace level and token, changed between and during the     *)
(* requests of the caller.                                                 *)
(***************************************************************************)
NextTrace ==
    \/ \E lvl \in TraceLevels : Trace(lvl)
    \/ \E t \in TraceTokens : TraceToken(t)
    \/ Req
    \/ CallUrlFor(TRUE)
    \/ DoBegin("obj")
    \/ DoSend
    \/ \E outcome \in Outcomes : DoRecv(outcome)

SpecTrace == InitToken /\ [][NextTrace]_vars

(***************************************************************************)
(* One URL, set by UrlFor or by Filter, and the calls of Params that       *)
(* follow it.                                                              *)
(***************************************************************************)
QueryArgs == {<<S_ttl>>, <<S_ttl, S_600>>, <<S_limit, S_10>>,
              <<S_sort, S_name, S_ttl, S_600>>}

NextParams ==
    \/ Req
    \/ r.uri.nil /\ CallUrlFor(TRUE)
    \/ r.uri.nil /\ \E args \in ChainFilterArgs : CallFilter(TRUE, args)
    \/ \E args \in QueryArgs : CallParams(args)
    \/ DoBegin("obj")
    \/ DoSend
    \/ \E outcome \in Outcomes : DoRecv(outcome)

SpecParams == InitToken /\ [][NextParams]_vars

(***************************************************************************)
(* Properties of the session.                                              *)
(***************************************************************************)
\* A step that is a call of Do on the caller's descriptor.
DoInvoked ==
    /\ r.st \in {"built", "done"}
    /\ r'.st \in {"checked", "done"}
    /\ r'.calls = r.calls + 1

\* C1, as claimed: once Close() has returned (c.closed is set), every Do
\* returns at once with an error that says "Connection Closed", and sends
\* nothing.
C1_ClosedDoSaysConnectionClosed ==
    [][(c.closed /\ DoInvoked) =>
         /\ r'.st = "done" /\ r'.ret = "err"
         /\ r'.sends = r.sends
         /\ HasMsg(r', "Connection Closed")]_vars

\* C1, amended: once Close() has returned, every Do returns at once with an
\* error and sends nothing; the error says "Connection Closed" when the
\* descriptor has a URL and "No URL to talk to" when it has none.
C1_ClosedDoFails ==
    [][(c.closed /\ DoInvoked) =>
         /\ r'.st = "done" /\ r'.ret = "err"
         /\ r'.sends = r.sends
         /\ IF r.uri.nil
            THEN HasMsg(r', "No URL to talk to") /\ ~HasMsg(r', "Connection Closed")
            ELSE HasMsg(r', "Connection Closed")]_vars

C1_Witness ==
    /\ c.closed /\ r.st = "done" /\ r.ret = "err" /\ r.sends = 0
    /\ ~r.uri.nil /\ HasMsg(r, "Connection Closed")

C4_NothingAfterRenewalFailure ==
    [][obs.renewFailed =>
         /\ bg' = bg /\ c'.token = c.token
         /\ obs'.reauths = obs.reauths
         /\ r'.sends = r.sends
         /\ (r'.ret = "nil" => r.ret = "nil" /\ r'.st = r.st)]_vars

C4_Witness ==
    /\ obs.renewFailed /\ proc = "exited"
    /\ r.st = "checked" /\ c.token.id = 1

\* C5: whenever the session is marked closed its background goroutine has
\* left its loop, and from then on the token is not replaced and no renewal
\* request is sent.
C5_ClosedStopsRenewal ==
    /\ [](c.closed => bg.pc = "done")
    /\ [][c.closed => (c'.token = c.token /\ obs'.reauths = obs.reauths
                       /\ bg'.pc = "done")]_vars

\* a session closed while a delivered tick was still waiting in the
\* ticker's channel
C5_Witness == c.closed /\ c.kind = "user" /\ ticker.pending /\ bg.pc = "done"

\* C6, as claimed: a second Close() produces no fault.
C6_SecondCloseNoFault ==
    closePc.calls >= 2 => (proc # "panicked" /\ c.closed)

\* C7, as claimed: whenever Do has read c.token (in Authorize), the caller
\* held c.mux.
C7_TokenReadUnderMutex == r.readMux \in {"none", "caller"}

(***************************************************************************)
(* Properties of the chain of calls.                                       *)
(***************************************************************************)
IsPrefix(a, b) == Len(a) <= Len(b) /\ \A i \in DOMAIN a : a[i] = b[i]

\* C2: on one descriptor the recorded messages are only ever added to, and
\* a Do on a descriptor that holds a message returns at once with the
\* error and sends nothing.
C2_ErrorsKeptAndFailDo ==
    [][/\ r'.calls >= r.calls =>
            IsPrefix(r.err.Messages, r'.err.Messages)
       /\ (ContainsError(r) /\ DoInvoked) =>
            /\ r'.st = "done" /\ r'.ret = "err"
            /\ r'.sends = r.sends]_vars

\* an error recorded by Params, a later Body that succeeded, then Do on an
\* open session
C2_Witness ==
    /\ r.st = "done" /\ r.ret = "err" /\ r.sends = 0
    /\ ~r.uri.nil /\ ~c.closed /\ r.body = "json"
    /\ r.err.Messages =
         <<"WithParams was not passed an even number of arguments">>

(***************************************************************************)
(* The filter grammar and the query string, for the properties of Filter.  *)
(***************************************************************************)
Keywords1 == {S_sort, S_limit, S_offset}

\* An operator name in title case, whatever its case was.
NormOpOf(s) ==
    [i \in DOMAIN s |-> IF i = 1 THEN ToUpperCh(s[i]) ELSE ToLowerCh(s[i])]

Drop(q, n) == SubSeq(q, n + 1, Len(q))

\* The grammar: "reverse" | ("sort" | "limit" | "offset") v
\*            | index op v      (op, in any case, one of Ops1)
\*            | index op lo hi  (op, in any case, one of Ops2)
RECURSIVE WellFormed(_)
WellFormed(q) ==
    IF q = <<>> THEN TRUE
    ELSE IF q[1] = S_reverse THEN WellFormed(Tail(q))
    ELSE IF q[1] \in Keywords1 THEN Len(q) >= 2 /\ WellFormed(Drop(q, 2))
    ELSE /\ Len(q) >= 2
         /\ \/ NormOpOf(q[2]) \in Ops1 /\ Len(q) >= 3 /\ WellFormed(Drop(q, 3))
            \/ NormOpOf(q[2]) \in Ops2 /\ Len(q) >= 4 /\ WellFormed(Drop(q, 4))

\* The clauses of a well-formed list, in its order.
RECURSIVE Clauses(_)
Clauses(q) ==
    IF q = <<>> THEN <<>>
    ELSE IF q[1] = S_reverse
    THEN <<[key |-> q[1], op |-> <<>>, vals |-> <<>>]>> \o Clauses(Tail(q))
    ELSE IF q[1] \in Keywords1
    THEN <<[key |-> q[1], op |-> <<>>, vals |-> <<q[2]>>]>> \o Clauses(Drop(q, 2))
    ELSE IF NormOpOf(q[2]) \in Ops1
    THEN <<[key |-> q[1], op |-> NormOpOf(q[2]), vals |-> <<q[3]>>]>>
         \o Clauses(Drop(q, 3))
    ELSE <<[key |-> q[1], op |-> NormOpOf(q[2]), vals |-> <<q[3], q[4]>>]>>
         \o Clauses(Drop(q, 4))

\* The query parameter the claim gives for a clause.
ParamOf(cl) ==
    IF cl.key = S_reverse THEN <<cl.key, S_true>>
    ELSE IF cl.op = <<>> THEN <<cl.key, cl.vals[1]>>
    ELSE IF Len(cl.vals) = 1
    THEN <<cl.key, cl.op \o <<"(">> \o cl.vals[1] \o <<")">>>>
    ELSE <<cl.key, cl.op \o <<"(">> \o cl.vals[1] \o <<",">> \o cl.vals[2]
                    \o <<")">>>>

ExpectedParams(q) == [i \in DOMAIN Clauses(q) |-> ParamOf(Clauses(q)[i])]

\* The first position of ch in q, or 0.
IndexOf(q, ch) ==
    IF \E i \in DOMAIN q : q[i] = ch
    THEN CHOOSE i \in DOMAIN q : q[i] = ch /\ \A j \in 1..(i - 1) : q[j] # ch
    ELSE 0

RECURSIVE Split(_, _)
Split(q, sep) ==
    LET i == IndexOf(q, sep)
    IN IF i = 0 THEN <<q>>
       ELSE <<SubSeq(q, 1, i - 1)>> \o Split(Drop(q, i), sep)

UnescapeHex(h) ==
    CASE h = <<"2","8">> -> "("
      [] h = <<"2","9">> -> ")"
      [] h = <<"2","C">> -> ","
      [] h = <<"2","6">> -> "&"
      [] h = <<"3","D">> -> "="
      [] h = <<"2","5">> -> "%"
      [] h = <<"2","B">> -> "+"

\* url.QueryUnescape
RECURSIVE QueryUnescape(_)
QueryUnescape(q) ==
    IF q = <<>> THEN <<>>
    ELSE IF q[1] = "%"
    THEN <<UnescapeHex(SubSeq(q, 2, 3))>> \o QueryUnescape(Drop(q, 3))
    ELSE <<q[1]>> \o QueryUnescape(Tail(q))

\* url.ParseQuery: the <<key, value>> pairs of a raw query, in its order.
ParsePair(q) ==
    LET i == IndexOf(q, "=")
    IN IF i = 0 THEN <<QueryUnescape(q), <<>>>>
       ELSE <<QueryUnescape(SubSeq(q, 1, i - 1)), QueryUnescape(Drop(q, i))>>

ParseQuery(q) ==
    IF q = <<>> THEN <<>>
    ELSE [i \in DOMAIN Split(q, "&") |-> ParsePair(Split(q, "&")[i])]

\* url.Values as a map: each key's values, in the order they occur.
RECURSIVE ValuesFor(_, _)
ValuesFor(pairs, k) ==
    IF pairs = <<>> THEN <<>>
    ELSE IF pairs[1][1] = k THEN <<pairs[1][2]>> \o ValuesFor(Tail(pairs), k)
    ELSE ValuesFor(Tail(pairs), k)

ValuesMap(pairs) == [k \in KeysOf(pairs) |-> ValuesFor(pairs, k)]

\* Whether sub occurs in q.
Contains(q, sub) ==
    \E i \in 0..(Len(q) - Len(sub)) : SubSeq(q, i + 1, i + Len(sub)) = sub

\* A query parameter parsed back into a clause.
ParseClause(pair) ==
    LET k == pair[1]
        v == pair[2]
        open == IndexOf(v, "(")
        op == SubSeq(v, 1, open - 1)
        inner == SubSeq(v, open + 1, Len(v) - 1)
        comma == IndexOf(inner, ",")
    IN IF k = S_reverse THEN [key |-> k, op |-> <<>>, vals |-> <<>>]
       ELSE IF k \in Keywords1 THEN [key |-> k, op |-> <<>>, vals |-> <<v>>]
       ELSE IF op \in Ops2 /\ comma > 0
       THEN [key |-> k, op |-> op,
             vals |-> <<SubSeq(inner, 1, comma - 1), Drop(inner, comma)>>]
       ELSE [key |-> k, op |-> op, vals |-> <<inner>>]

ParseClauses(q) == [i \in DOMAIN ParseQuery(q) |-> ParseClause(ParseQuery(q)[i])]

\* The clauses ordered by key, those of one key in their original order.
RECURSIVE WithKey(_, _)
WithKey(cls, k) ==
    IF cls = <<>> THEN <<>>
    ELSE IF cls[1].key = k THEN <<cls[1]>> \o WithKey(Tail(cls), k)
    ELSE WithKey(Tail(cls), k)

RECURSIVE ByKeys(_, _)
ByKeys(cls, ks) ==
    IF ks = <<>> THEN <<>> ELSE WithKey(cls, ks[1]) \o ByKeys(cls, Tail(ks))

SortedByKey(cls) ==
    ByKeys(cls, SortedKeys({cls[i].key : i \in DOMAIN cls}))

\* Filter was called on the descriptor with filterArgs.
Filtered == r.st # "none" /\ r.calls >= 1

Example == <<S_name, S_Eq, S_foo, S_limit, S_10>>

FilterErrors ==
    {"Invalid Filter: %s requires exactly one parameter",
     "Invalid Filter: %s requires an op and at least 1 parameter",
     "Invalid Filter: %s op %s requires 1 parameter",
     "Invalid Filter: %s op %s requires 2 parameters",
     "Invalid Filter %s: unknown op %s"}

(***************************************************************************)
(* Properties of Filter.                                                   *)
(***************************************************************************)
\* C8, as claimed: for a well-formed list (on a descriptor whose URL was
\* resolved) Filter returns with no error, the query parameters are exactly
\* those of the clauses, and for the example list the query string contains
\* name=Eq(foo) and limit=10.
C8_QueryStringHasClauses ==
    (Filtered /\ WellFormed(filterArgs) /\ ~r.uri.nil) =>
        /\ r.st = "built" => ~ContainsError(r)
        /\ ValuesMap(ParseQuery(r.uri.RawQuery)) =
             ValuesMap(ExpectedParams(filterArgs))
        /\ filterArgs = Example =>
             /\ Contains(r.uri.RawQuery, S_name \o <<"=">> \o S_Eq \o <<"(">>
                                         \o S_foo \o <<")">>)
             /\ Contains(r.uri.RawQuery, S_limit \o <<"=">> \o S_10)

\* C8, amended: the query parameters are exactly those of the clauses once
\* the query string is decoded; the query string itself holds them
\* percent-encoded, for the example list limit=10&name=Eq%28foo%29.
C8_DecodedQueryHasClauses ==
    (Filtered /\ WellFormed(filterArgs) /\ ~r.uri.nil) =>
        /\ r.st = "built" => ~ContainsError(r)
        /\ ValuesMap(ParseQuery(r.uri.RawQuery)) =
             ValuesMap(ExpectedParams(filterArgs))
        /\ filterArgs = Example =>
             r.uri.RawQuery =
               S_limit \o <<"=">> \o S_10 \o <<"&">> \o S_name \o <<"=">>
               \o S_Eq \o <<"%","2","8">> \o S_foo \o <<"%","2","9">>

C8_Witness ==
    /\ filterArgs = Example /\ r.st = "built" /\ r.calls = 1 /\ ~r.uri.nil
    /\ ParseQuery(r.uri.RawQuery) =
         <<<<S_limit, S_10>>, <<S_name, S_Eq \o <<"(">> \o S_foo \o <<")">>>>>>

\* C9: for a list that violates the grammar Filter records one of its
\* errors and sets no query parameter, and Do returns the error without
\* sending a request.
C9_MalformedFilterFails ==
    (Filtered /\ ~WellFormed(filterArgs)) =>
        /\ \E m \in FilterErrors : HasMsg(r, m)
        /\ r.uri.RawQuery = <<>>
        /\ r.sends = 0
        /\ r.st \in {"built", "done"}
        /\ r.st = "done" => r.ret = "err"

\* a complete clause followed by "limit" with no value, then Do
C9_Witness ==
    /\ filterArgs = <<S_name, S_Eq, S_foo, S_limit>>
    /\ ~r.uri.nil /\ r.st = "done" /\ r.ret = "err" /\ r.sends = 0
    /\ r.err.Messages = <<"Invalid Filter: %s requires exactly one parameter">>

\* C10, as claimed: the query of a well-formed list parses back to the
\* clauses of the list, in the order of the list.
C10_RoundTripInOrder ==
    (Filtered /\ WellFormed(filterArgs) /\ ~r.uri.nil) =>
        ParseClauses(r.uri.RawQuery) = Clauses(filterArgs)

\* C10, amended: it parses back to the same clauses with the same values,
\* ordered by parameter name, the clauses of one name in their original
\* order.
C10_RoundTripByKey ==
    (Filtered /\ WellFormed(filterArgs) /\ ~r.uri.nil) =>
        ParseClauses(r.uri.RawQuery) = SortedByKey(Clauses(filterArgs))

\* a list whose clauses come back in another order
C10_Witness ==
    /\ Filtered /\ ~r.uri.nil
    /\ filterArgs = <<S_reverse, S_name, S_BETWEEN, S_10, S_foo>>
    /\ ParseClauses(r.uri.RawQuery) =
         <<[key |-> S_name, op |-> Title(ToLower(S_BETWEEN)),
            vals |-> <<S_10, S_foo>>],
           [key |-> S_reverse, op |-> <<>>, vals |-> <<>>]>>

(***************************************************************************)
(* Properties of PatchTo and of the generated patch.                       *)
(***************************************************************************)
\* PatchTo was called on the descriptor with two models that differ in
\* prefix or in key.
Mismatched ==
    /\ obs.patchArgs.fn = "PatchTo"
    /\ \/ obs.patchArgs.old.Prefix # obs.patchArgs.new.Prefix
       \/ obs.patchArgs.old.Key # obs.patchArgs.new.Key

MismatchMsg == "Cannot patch from %T to %T, or change keys from %s to %s"

\* C11: PatchTo on two models that differ in prefix or key records the
\* identity-mismatch error and no patch; it leaves the method, the body and
\* the URL as they were; Do then returns the error and nothing is sent.
C11_MismatchedPatchToFails ==
    /\ [](Mismatched =>
            /\ HasMsg(r, MismatchMsg)
            /\ r.patch = <<>> /\ r.sends = 0
            /\ r.st \in {"built", "done"}
            /\ r.st = "done" => r.ret = "err")
    /\ [][Mismatched' /\ obs'.patchArgs # obs.patchArgs =>
            /\ r'.method = r.method /\ r'.body = r.body
            /\ r'.patch = r.patch /\ r'.uri = r.uri
            /\ r'.header = r.header]_vars

\* the keys differ, PatchTo after ParanoidPatch, then Do
C11_Witness ==
    /\ Mismatched /\ r.paranoid
    /\ obs.patchArgs.old.Prefix = obs.patchArgs.new.Prefix
    /\ r.st = "done" /\ r.ret = "err" /\ r.sends = 0
    /\ r.method = "GET" /\ r.body = "none" /\ r.uri.nil

\* PatchTo was called with two snapshots of one identity and generated the
\* patch the descriptor holds.
Patched == obs.patchArgs.fn = "PatchTo" /\ ~Mismatched

OldData == obs.patchArgs.old.data

NewData == obs.patchArgs.new.data

Changed == {f \in RangeOf(Fields) : OldData[f] # NewData[f]}

\* C12: the patch generated from old to new, applied to old, gives new; the
\* patch generated from a snapshot to itself is empty.
C12_PatchAppliesToNew ==
    Patched =>
        /\ Apply(r.patch, OldData) = NewData
        /\ OldData = NewData => r.patch = <<>>

\* both fields differ, in paranoid mode
C12_Witness ==
    /\ Patched /\ r.paranoid /\ Changed = RangeOf(Fields)
    /\ Len(r.patch) = 4
    /\ Apply(r.patch, OldData) = NewData

\* The positions of the operations of kind op on the field f.
OpsAt(patch, op, f) ==
    {i \in DOMAIN patch : patch[i].op = op /\ patch[i].path = f}

\* C13: in paranoid mode every changed field has exactly one test, which
\* holds the old value and comes before the operation that changes the
\* field, so that the patch is rejected on every snapshot that differs from
\* old on a changed field; otherwise the patch has no test.
C13_ParanoidTestsOldValues ==
    Patched =>
        IF r.paranoid
        THEN /\ \A f \in Changed :
                  /\ Cardinality(OpsAt(r.patch, "test", f)) = 1
                  /\ \A i \in OpsAt(r.patch, "test", f) :
                       /\ r.patch[i].value = OldData[f]
                       /\ \A j \in OpsAt(r.patch, "replace", f) : i < j
             /\ \A snap \in Snapshots :
                  (\E f \in Changed : snap[f] # OldData[f]) =>
                      Apply(r.patch, snap) = "rejected"
        ELSE \A i \in DOMAIN r.patch : r.patch[i].op # "test"

\* a paranoid patch of one changed field, which the server rejects on a
\* snapshot another writer has changed
C13_Witness ==
    /\ Patched /\ r.paranoid /\ r.st = "done"
    /\ Changed = {"Owner"}
    /\ r.patch = <<[op |-> "test", path |-> "Owner", value |-> OldData["Owner"]],
                   [op |-> "replace", path |-> "Owner", value |-> NewData["Owner"]]>>
    /\ Apply(r.patch, NewData) = "rejected"

(***************************************************************************)
(* Properties of Do's handling of the response.                            *)
(***************************************************************************)
\* A step in which Do receives a response and returns.
Responded == r.st = "sent" /\ r'.st = "done" /\ ~r'.recv.err

IsJSON(resp) == MediaType(resp.ct) = "application/json"

\* The response is a server-reported error: a status of 400 or more and a
\* JSON body that holds a structured error.
ServerError(resp) ==
    resp.StatusCode >= 400 /\ IsJSON(resp) /\ resp.body.kind = "error"

\* C14, as claimed: for a request other than HEAD that receives a status of
\* 400 or more and a structured JSON error body, Do returns the decoded
\* error, which holds the HTTP status of the response and the messages of
\* the server.
C14_ServerErrorKeepsStatus ==
    [][(Responded /\ r.method # "HEAD" /\ ServerError(r'.recv)) =>
          /\ r'.ret = "res"
          /\ r'.res.Code = r'.recv.StatusCode
          /\ r'.res.Messages = r'.recv.body.Messages]_vars

\* C14, amended: Do returns the decoded error, which holds the code and the
\* messages that the body of the response holds.
C14_ServerErrorKeepsBody ==
    [][(Responded /\ r.method # "HEAD" /\ ServerError(r'.recv)) =>
          /\ r'.ret = "res"
          /\ r'.res.Code = r'.recv.body.Code
          /\ r'.res.Messages = r'.recv.body.Messages
          /\ r'.err = r.err]_vars

\* a 500 with a JSON error body that holds the code 500
C14_Witness ==
    /\ r.st = "done" /\ r.method = "GET" /\ r.ret = "res"
    /\ ~r.recv.err /\ r.recv.StatusCode = 500 /\ ServerError(r.recv)
    /\ r.res.Code = 500 /\ r.res.Messages = <<"server message">>

\* C15: for a request other than HEAD, and other than one with a writer
\* val and a status below 300, a response whose content type is not
\* application/json makes Do return an error whatever the status is, and
\* nothing is decoded into val.
C15_OtherContentTypeFails ==
    [][(/\ Responded /\ r.method # "HEAD"
        /\ ~(r.val = "writer" /\ r'.recv.StatusCode < 300)
        /\ ~IsJSON(r'.recv)) =>
          /\ r'.ret = "err"
          /\ HasMsg(r', "Cannot handle content-type %s")
          /\ r'.decoded = r.decoded /\ r'.res = r.res]_vars

\* a 200 with no content type and no body, val not a writer
C15_Witness ==
    /\ r.st = "done" /\ r.method = "GET" /\ r.val = "obj" /\ r.ret = "err"
    /\ ~r.recv.err /\ r.recv.StatusCode = 200 /\ r.recv.ct = ""
    /\ r.recv.body.kind = "empty" /\ r.decoded = "none"
    /\ r.err.Messages = <<"Cannot handle content-type %s",
                          "No decoder for content-type %s">>

\* What ExistsModel is to return: by the status when its request got a
\* response, (false, error) when it did not.
ExistsExpected(rq) ==
    IF rq.sends = 1 /\ ~rq.recv.err
    THEN IF rq.recv.StatusCode <= 300 THEN [ok |-> TRUE, err |-> "nil"]
         ELSE IF rq.recv.StatusCode = 404 THEN [ok |-> FALSE, err |-> "nil"]
         ELSE [ok |-> FALSE, err |-> "err"]
    ELSE [ok |-> FALSE, err |-> "err"]

\* C16: ExistsModel sends a HEAD request and returns (true, nil) for a
\* status up to 300, (false, nil) for 404, and (false, error) otherwise: for
\* another status, on a closed session, after a configuration error and
\* after a transport failure.
C16_ExistsModelResults ==
    r.op = "ExistsModel" =>
        /\ r.method = "HEAD"
        /\ r.st = "done" => r.exists = ExistsExpected(r)

\* a 404, which is not an error
C16_Witness ==
    /\ r.op = "ExistsModel" /\ r.st = "done" /\ r.sends = 1
    /\ ~r.recv.err /\ r.recv.StatusCode = 404 /\ r.recv.ct = "text/plain"
    /\ r.exists = [ok |-> FALSE, err |-> "nil"]

\* C17, as claimed: a request that Do sends asks for application/json,
\* unless val is a writer: then it asks for application/octet-stream and
\* not for application/json.
C17_AcceptByDestination ==
    r.st = "sent" =>
        IF r.val = "writer"
        THEN /\ "application/octet-stream" \in RangeOf(r.header.Accept)
             /\ "application/json" \notin RangeOf(r.header.Accept)
        ELSE "application/json" \in RangeOf(r.header.Accept)

(***************************************************************************)
(* Properties of the Authorization header.                                 *)
(***************************************************************************)
\* A step in which Do authorizes the request and hands it to the transport.
Sending == r.st = "checked" /\ r'.st = "sent"

C19_NoUrlFailsDo ==
    [][(r.uri.nil /\ DoInvoked) =>
          /\ r'.st = "done" /\ r'.ret = "err"
          /\ r'.err.Messages = Append(r.err.Messages, "No URL to talk to")
          /\ r'.sends = r.sends /\ r'.sends = 0]_vars

\* a descriptor with a body and a failed UrlFor, on a closed session
C19_Witness ==
    /\ c.closed /\ r.uri.nil /\ r.body = "json"
    /\ r.st = "done" /\ r.ret = "err" /\ r.sends = 0
    /\ r.err.Messages = <<"parse: invalid URI for request", "No URL to talk to">>

\* C20: a session made by TokenSession has no renewal loop: whatever is
\* called and however much time passes, its token stays the one it was
\* given and no renewal request is sent.
C20_TokenSessionNeverRenews ==
    /\ [](c.kind = "token" =>
            /\ c.token = [id |-> 1, issued |-> 0]
            /\ obs.reauths = 0
            /\ bg.pc \in {"recv", "done"} /\ ~ticker.on)
    /\ [][c.kind = "token" => c'.token = c.token]_vars

\* a token session past the validity of a renewed token, after a request
C20_Witness ==
    /\ c.kind = "token" /\ now > TokenTTL
    /\ r.st = "done" /\ r.sends = 1
    /\ c.token = [id |-> 1, issued |-> 0] /\ obs.reauths = 0

(***************************************************************************)
(* Properties of the session's trace settings.                             *)
(***************************************************************************)
\* The values of a trace header that Do added from the value v.
TraceValues(values, v) ==
    /\ \A i \in DOMAIN values : values[i] = v
    /\ values # <<>>

\* C21: a descriptor holds the trace level and token that the session had
\* when Req created it, its Do sends these as the trace headers, and a
\* step that changes the session's level or token changes no descriptor.
C21_DescriptorKeepsTrace ==
    /\ [](r.st # "none" =>
            /\ r.traceLvl = obs.reqTrace.lvl
            /\ r.traceToken = obs.reqTrace.token
            /\ (r.st = "sent" /\ obs.reqTrace.lvl # "" =>
                  /\ TraceValues(r.header.XLogRequest, obs.reqTrace.lvl)
                  /\ TraceValues(r.header.XLogToken, obs.reqTrace.token))
            /\ (r.st = "sent" /\ obs.reqTrace.lvl = "" =>
                  r.header.XLogRequest = <<>> /\ r.header.XLogToken = <<>>))
    /\ [][(c'.traceLvl # c.traceLvl \/ c'.traceToken # c.traceToken) =>
            r' = r]_vars

\* a request on its way with the level and token of its creation, after
\* the session's level and token were both changed
C21_Witness ==
    /\ r.st = "sent" /\ r.traceLvl = "debug" /\ r.traceToken = "t1"
    /\ r.header.XLogRequest = <<"debug">> /\ r.header.XLogToken = <<"t1">>
    /\ c.traceLvl = "trace" /\ c.traceToken = "t2"

(***************************************************************************)
(* Properties of repeated calls on one descriptor.                         *)
(***************************************************************************)
\* C22, as claimed: over all the calls made on one descriptor at most one
\* request is handed to the transport; a Do after the first sends nothing.
C22_AtMostOneRequestSent == r.sends <= 1

\* The <<name, value>> pairs of a raw query.
QueryPairs(q) == {ParseQuery(q)[i] : i \in DOMAIN ParseQuery(q)}

\* C23, as claimed: the query of the descriptor's URL holds the parameters
\* of every call of Params that recorded no error, those that Filter made
\* included, and not only the parameters of the last call.
C23_ParamsAppends ==
    (r.st # "none" /\ ~r.uri.nil) =>
        obs.params \subseteq QueryPairs(r.uri.RawQuery)

(***************************************************************************)
(* Properties of the paranoid flag.                                        *)
(***************************************************************************)
\* Whether a patch holds a test.
HasTests(patch) == \E i \in DOMAIN patch : patch[i].op = "test"

\* C24: the patch PatchTo generated tests the old values exactly when the
\* descriptor's paranoid flag was set when PatchTo was called, which is
\* when ParanoidPatch was called before it (as PatchToFull does for
\* paranoid = true, and for no other value); a ParanoidPatch called on a
\* descriptor that holds a generated patch changes neither the patch nor
\* the body.
C24_ParanoidAtGeneration ==
    /\ [](Patched =>
            /\ obs.patchArgs.paranoid /\ Changed # {} => HasTests(r.patch)
            /\ ~obs.patchArgs.paranoid => ~HasTests(r.patch)
            /\ obs.patchArgs.paranoid =>
                  \A f \in Changed : \E i \in OpsAt(r.patch, "test", f) :
                      r.patch[i].value = OldData[f])
    /\ [][(Patched /\ Patched' /\ r'.paranoid # r.paranoid) =>
            (r'.patch = r.patch /\ r'.body = r.body
             /\ obs'.patchArgs = obs.patchArgs)]_vars

\* a patch generated without tests, sent after ParanoidPatch was called on
\* the descriptor that already held it
C24_Witness ==
    /\ Patched /\ ~obs.patchArgs.paranoid /\ r.paranoid
    /\ Changed = {"Owner"} /\ r.st = "sent"
    /\ r.patch = <<[op |-> "replace", path |-> "Owner",
                    value |-> NewData["Owner"]]>>

(***************************************************************************)
(* Termination of Close.                                                   *)
(***************************************************************************)
\* The first Close() is waiting on its send to c.closer.
FirstClosePending == closePc.calls = 1 /\ closePc.pc = "send"

\* The first Close() has returned and the session is marked closed.
FirstCloseReturned == closePc.calls = 1 /\ closePc.pc = "idle" /\ c.closed

C26_ErrorNamesModel ==
    (/\ obs.patchArgs.fn \in {"Fill", "Delete", "PatchTo"}
     /\ r.st = "done" /\ r.ret = "err") =>
        /\ r.err.Model = obs.patchArgs.old.Prefix
        /\ r.err.Key = obs.patchArgs.old.Key

====
